---- MODULE Spec2Model ----
(***************************************************************************)
(* Bulk image-operation pipeline of the Shopify image management tool:     *)
(* the submit route POST /api/products/batch-operation, the asynchronous   *)
(* orchestrator processBatchOperations and the record store it writes      *)
(* (src/server/routes.ts, src/server/storage.ts,                           *)
(* src/server/services/shopify.ts).                                        *)
(*                                                                         *)
(* One behaviour follows one submit request from the arrival of the        *)
(* request to the end of the orchestrator task it launches.  Every await   *)
(* of a route and of the orchestrator is one action, so the store routes   *)
(* and the task run between the awaits of a request; a remote call or a    *)
(* record-store call returns a result or throws, and a record-store call   *)
(* that throws has written nothing.  req.files is the array upload.any()   *)
(* stores; whether require is bound where the orchestrator calls it        *)
(* depends on the build and is fixed in the initial state.                 *)
(*                                                                         *)
(* Spec        one request (a batch submit, or single-image operations in  *)
(*             flight together) and the orchestrator task of the batch;    *)
(* CapSpec     the submit route on code lists around the cap of 30;        *)
(* AppSpec     the store routes and methods (creation, activations, update)*)
(*             running beside a batch of one code;                         *)
(* MatchSpec   the archive preview on bounded code lists and archives;     *)
(* ArchiveSpec the archive preview and a batch submitted in archive mode   *)
(*             with the same code list and archive;                        *)
(* PollSpec    the client of a batch of one code (its timer, its status    *)
(*             requests in flight) beside the orchestrator task.           *)
(***************************************************************************)
EXTENDS Integers, Sequences, FiniteSets, TLC

\* ---------------------------------------------------------------- bounds
\* Longest code list the orchestrator is run on.
MaxCodes == 2

\* Cap on the codes of one batch (z.array(z.string()).max(30), slice(0, 30)).
MaxBatchSkus == 30

\* Codes and file names are strings, written as sequences of characters.
\* Codes a request may name; "X" is a code that is in no submitted list.
SkuOrder == << <<"A">>, <<"B">>, <<"C">>, <<"D">> >>

ExtraSku == <<"X">>

\* A code that is the name of a property every object literal inherits from
\* Object.prototype.
InheritedSku == <<"c", "o", "n", "s", "t", "r", "u", "c", "t", "o", "r">>

\* The sku column of a record inserted without one.
NoSku == <<>>

OperationTypes == {"replace", "add", "other"}

UploadMethods == {"single", "zip", "individual"}

\* What productVariant.image?.id || product.images.edges[0].node.id gives.
ImageKinds == {"none", "media"}

\* -------------------------------------------------------------- helpers
Range(s) == {s[i] : i \in DOMAIN s}

\* Number.prototype.toString() in base 10, as the sequence of its digits.
RECURSIVE Digits(_)
Digits(n) == IF n < 10 THEN <<n>> ELSE Append(Digits(n \div 10), n % 10)

NumToString(n) == Digits(n)

\* The number a decimal digit string denotes (how a reader of the record
\* compares the counters).
RECURSIVE Num(_)
Num(s) == IF Len(s) = 0 THEN 0
          ELSE 10 * Num(SubSeq(s, 1, Len(s) - 1)) + s[Len(s)]

\* The code list of length n a request submits.
SkuList(n) == [i \in 1..n |-> SkuOrder[((i - 1) % Len(SkuOrder)) + 1]]

\* The code lists of length n a request may carry: the list above, or the
\* same list ending with a code that names an inherited property.
CodeLists(n) ==
    {SkuList(n)} \cup (IF n >= 1 THEN {[SkuList(n) EXCEPT ![n] = InheritedSku]} ELSE {})

\* ---------------------------------------------------------------- state
VARIABLES
    batches,      \* batch_operations table: id -> record
    productOps,   \* product_operations table, in insertion order
    response,     \* HTTP answer to the request: "none", "200", "400", "404", "500"
    req,          \* the submit handler: the await it is at and its locals
    pc,           \* position of the orchestrator task
    skus,         \* argument skus of processBatchOperations: what for-of yields
    skusArg,      \* the same argument: whether it is iterable, its length property
    requireBound, \* whether `require` is bound where routes.ts is evaluated
    imageFiles,   \* argument imageFiles: the set of keys of the map
    operationType,\* argument operationType
    idx,          \* index in skus of the code being processed
    completed,    \* local counter completed
    failed,       \* local counter failed
    cur,          \* locals of the current iteration
    made,         \* kinds of remote call issued so far by the task
    lookups,      \* outcome of each product lookup of the task, in order
    storeThrew,   \* a record-store call of the task has thrown
    submitted,    \* the code list the submit request carried (once parsed)
    activeStore,  \* argument activeStore of processBatchOperations (0: none)
    stores,       \* stores table: id -> isActive
    act,          \* setActiveStore calls in flight: request -> id (0: idle)
    single,       \* the single-image handlers: the await each is at and its locals
    zipSkus,      \* code list sent with an archive
    zipEntries,   \* entries of the archive
    preview,      \* imageFiles of the zip-preview response
    zipDone,      \* {"preview"} once the zip-preview route has answered
    poll          \* the client of the batch: its timer, the status of the batch
                  \* it holds, its status requests in flight

storeVars == <<stores, act>>

matchVars == <<zipSkus, zipEntries, preview, zipDone>>

vars == <<batches, productOps, response, req, pc, skus, skusArg, requireBound,
          imageFiles, operationType, idx, completed, failed, cur, made, lookups,
          storeThrew, submitted, activeStore, storeVars, single, matchVars, poll>>

orchVars == <<pc, skus, skusArg, requireBound, imageFiles, operationType, idx, completed,
              failed, cur, made, lookups, storeThrew, activeStore>>

BatchId == 1

NoCur == [image |-> "none", op |-> 0, calls |-> <<>>, err |-> "none", deleted |-> FALSE,
          store |-> 0]

\* A single-image request that has not arrived.
\*   at     "none", "getActiveStore", "lookup", "create", "call", "update",
\*          "fail", "done": the await the handler is at
\*   calls  remote calls issued so far; todo: the remote calls of the try block
\*          not yet returned, the first of them in flight when at = "call"
\*   op     index of the record the handler created (0: none)
\*   response  the status the handler answered with ("none": no answer yet)
NoSingle == [route |-> "none", at |-> "none", operationType |-> "none", noLookup |-> FALSE,
             target |-> "absent", calls |-> <<>>, todo |-> <<>>, op |-> 0,
             err |-> "none", store |-> 0, response |-> "none"]

\* No submit request has arrived.
\*   at    "none", "getActiveStore", "createBatchOperation", "done"
\*   kind  what JSON.parse(req.body.skus) gave (see SkusKinds)
\*   archive  the bytes of the part zipFile of the request: "none" (no such
\*            part), "valid" or "invalid" (no archive)
NoReq == [at |-> "none", kind |-> "none", list |-> <<>>, length |-> 0,
          operationType |-> "none", uploadMethod |-> "none", archive |-> "none",
          singleFile |-> FALSE,
          zipFile |-> FALSE, zip |-> "none", zipKeys |-> {}, individualFiles |-> {},
          store |-> 0]

\* The handler has answered: its locals are gone.
DoneReq == [NoReq EXCEPT !.at = "done"]

\* The status requests of the poller that may be in flight at the same time.
PollRequests == {1, 2}

\* pollBatchProgress has not been called.
\*   state  the timer: "idle" (not started), "polling", "stopped" (cleared)
\*   seen   status of currentBatch ("none": currentBatch is null)
\*   ticks  per request: "free", "sent" (fetch called, not yet answered),
\*          the status of the record the route answered with, or "failed"
\*          (the route answered with an error)
NoPoll == [state |-> "idle", seen |-> "none", ticks |-> [t \in PollRequests |-> "free"]]

\* Ids of the store configurations saved before the first request.
SavedStores == {1, 2}

\* The activation requests that may be in flight at the same time.
ActivationRequests == {1, 2}

\* The single-image requests that may be in flight at the same time.
SingleRequests == {1, 2}

\* The state before the first request, but for the archive a client holds:
\* two saved store configurations, none of them or the first one active.
InitServer ==
    /\ batches = <<>>
    /\ productOps = <<>>
    /\ response = "none"
    /\ req = NoReq
    /\ pc = "none"
    /\ skus = <<>>
    /\ skusArg = [iterable |-> TRUE, length |-> 0]
    /\ requireBound \in BOOLEAN
    /\ imageFiles = {}
    /\ operationType = "none"
    /\ idx = 0
    /\ completed = 0
    /\ failed = 0
    /\ cur = NoCur
    /\ made = {}
    /\ lookups = <<>>
    /\ storeThrew = FALSE
    /\ submitted = <<>>
    /\ activeStore = 0
    /\ \E a \in {0, 1} : stores = [s \in SavedStores |-> s = a]
    /\ act = [r \in ActivationRequests |-> 0]
    /\ single = [r \in SingleRequests |-> NoSingle]
    /\ poll = NoPoll
    /\ preview = <<>>
    /\ zipDone = {}

Init ==
    /\ InitServer
    /\ zipSkus = <<>>
    /\ zipEntries = <<>>

\* ------------------------------------------------------- record store
\* Column defaults of a new batch_operations row: status 'pending',
\* completedItems '0', failedItems '0' (batchOperations table of the schema).
BatchDefaults ==
    [status |-> "pending", completedItems |-> NumToString(0), failedItems |-> NumToString(0)]

\* db.update(...).set(patch): the named columns change, the others stay.
Patch(rec, p) == [f \in DOMAIN rec |-> IF f \in DOMAIN p THEN p[f] ELSE rec[f]]

\* Mutant of NewBatch: totalItems counts one code too many.
NewBatchOffByOne(n, opType, store) ==
    [id |-> BatchId, storeId |-> store, operationType |-> opType,
     totalItems |-> NumToString(n + 1),
     status |-> BatchDefaults.status,
     completedItems |-> BatchDefaults.completedItems,
     failedItems |-> BatchDefaults.failedItems]

\* storage.createBatchOperation: the inserted row.
NewBatch(n, opType, store) ==
    [id |-> BatchId, storeId |-> store, operationType |-> opType,
     totalItems |-> NumToString(n),
     status |-> BatchDefaults.status,
     completedItems |-> BatchDefaults.completedItems,
     failedItems |-> BatchDefaults.failedItems]

\* storage.updateBatchOperation(batchId, patch), when the call succeeds.
UpdateBatchOperation(p) == batches' = [batches EXCEPT ![BatchId] = Patch(@, p)]

\* storage.getActiveStore(): the first row with isActive, undefined (0) when
\* there is none.  The query has no ORDER BY: with several active rows any of
\* them may come first.
GetActiveStore ==
    IF \E s \in DOMAIN stores : stores[s] THEN {s \in DOMAIN stores : stores[s]} ELSE {0}

\* Mutant of TaskStore: the task asks for the active store again at each use.
TaskStoreReread == CHOOSE s \in GetActiveStore : TRUE

\* The store of the orchestrator task: its argument activeStore, from which
\* the ShopifyService of the task is built and whose id its records carry.
TaskStore == activeStore

\* storage.createProductOperation(row) of the orchestrator, when the call
\* succeeds.
CreateProductOperation(sku, status, msg) ==
    productOps' = Append(productOps,
        [batchId |-> BatchId, storeId |-> TaskStore, sku |-> sku,
         operationType |-> operationType, status |-> status, errorMessage |-> msg])

\* storage.updateProductOperation(id, patch), when the call succeeds.
UpdateProductOperation(id, p) == productOps' = [productOps EXCEPT ![id] = Patch(@, p)]

\* ------------------------------------------------------- submit route
\* What JSON.parse(req.body.skus) gives:
\*   "invalid"   it throws (no field skus, or text that is no JSON)
\*   "array"     an array of codes; a JSON string behaves as the array of its
\*               characters (it has a length and for-of yields them)
\*   "object"    an object with a numeric length: for-of throws on it
\*   "noLength"  a number, a boolean, an object without length: skus.length
\*               is undefined and skus.length.toString() throws
\*   "null"      null: skus.length throws
SkusKinds == {"invalid", "array", "object", "noLength", "null"}

\* Field names the file parts of a request may carry besides individualFile_i.
FileFields == {"singleFile", "zipFile"}

\* (req.files as any)?.singleFile?.[0] and ?.zipFile?.[0]: upload.any() stores
\* the files in an array, and an array has no property named after a field,
\* so the expression is undefined whatever parts the request carries.
FileOfField(files, field) == FALSE

\* The code -> image map the route hands to the orchestrator (its keys).
ResolveImageFiles(list, method, singleFile, zipFile, zipKeys, individualFiles) ==
    IF method = "zip" /\ zipFile THEN zipKeys
    ELSE IF method = "single" /\ singleFile THEN Range(list)
    ELSE IF method = "individual" /\ individualFiles # {} THEN individualFiles
    ELSE {}

\* POST /api/products/batch-operation, from the arrival of the request to its
\* first await, storage.getActiveStore():
\*   kind, list, n  the parsed skus: its kind, its codes (an array), its
\*                  length property (an object)
\*   dimsOk         req.body.dimensions is absent or JSON
\*   files          field names of the singleFile / zipFile parts
\*   zip, zipKeys   the archive of the zipFile part: "invalid" (loadAsync
\*                  throws) or "valid", and the codes its entries match
\*   indKeys        the codes individualSku_i of the parts individualFile_i
BatchOperationRoute(kind, list, n, dimsOk, opType, method, files, zip, zipKeys, indKeys) ==
    /\ response = "none"
    /\ req.at = "none"
    /\ UNCHANGED <<batches, productOps, orchVars, storeVars, single, matchVars, poll>>
    /\ IF kind = "invalid" \/ ~dimsOk \/ (kind = "null" /\ method = "individual") THEN
          /\ response' = "500"
          /\ req' = DoneReq
          /\ UNCHANGED submitted
       ELSE
          /\ response' = "none"
          /\ submitted' = list
          /\ req' = [at |-> "getActiveStore", kind |-> kind, list |-> list,
                     length |-> IF kind = "array" THEN Len(list) ELSE n,
                     operationType |-> opType, uploadMethod |-> method,
                     archive |-> IF "zipFile" \in files THEN zip ELSE "none",
                     singleFile |-> FileOfField(files, "singleFile"),
                     zipFile |-> FileOfField(files, "zipFile"),
                     zip |-> IF FileOfField(files, "zipFile") THEN zip ELSE "none",
                     zipKeys |-> IF FileOfField(files, "zipFile") THEN zipKeys ELSE {},
                     individualFiles |-> IF method = "individual" THEN indKeys ELSE {},
                     store |-> 0]

\* The requests the submit route is run on.
SubmitBatch ==
    /\ response = "none"
    /\ req.at = "none"
    /\ \A r \in SingleRequests : single[r].at = "none"
    /\ \E kind \in SkusKinds, n \in 0..MaxCodes, dimsOk \in BOOLEAN,
          opType \in OperationTypes, method \in UploadMethods,
          files \in SUBSET FileFields, zip \in {"invalid", "valid"} :
        \E list \in IF kind = "array" THEN CodeLists(n) ELSE {<<>>} :
          \E zipKeys \in SUBSET Range(list),
             indKeys \in SUBSET (Range(list) \cup {ExtraSku}) :
            BatchOperationRoute(kind, list, n, dimsOk, opType, method, files, zip,
                                zipKeys, indKeys)

\* const activeStore = await storage.getActiveStore() returns or throws; with
\* a store, the arguments of createBatchOperation are evaluated
\* (skus.length.toString()) and the insert is issued.
BatchGetActiveStore ==
    /\ req.at = "getActiveStore"
    /\ \E threw \in BOOLEAN, out \in GetActiveStore :
         IF threw THEN
            /\ response' = "500"
            /\ req' = DoneReq
         ELSE IF out = 0 THEN
            /\ response' = "400"
            /\ req' = DoneReq
         ELSE IF req.kind \in {"noLength", "null"} THEN
            /\ response' = "500"
            /\ req' = DoneReq
         ELSE
            /\ response' = "none"
            /\ req' = [req EXCEPT !.at = "createBatchOperation", !.store = out]
    /\ UNCHANGED <<batches, productOps, orchVars, submitted, storeVars, single,
                   matchVars, poll>>

\* const batch = await storage.createBatchOperation(...) returns or throws;
\* with the row, imageFiles is built, processBatchOperations is called (it
\* runs up to its first await) and the row is sent back.  The awaits of the
\* archive branch (loadAsync, file.async) lie behind zipFile.
BatchCreateOperation ==
    /\ req.at = "createBatchOperation"
    /\ req' = DoneReq
    /\ \E ok \in BOOLEAN :
         IF ~ok THEN
            /\ response' = "500"
            /\ UNCHANGED <<batches, orchVars>>
         ELSE
            /\ batches' = [i \in {BatchId} |->
                              NewBatch(req.length, req.operationType, req.store)]
            /\ IF req.uploadMethod = "zip" /\ req.zipFile /\ req.zip = "invalid" THEN
                  /\ response' = "500"
                  /\ UNCHANGED orchVars
               ELSE
                  /\ response' = "200"
                  /\ pc' = "start"
                  /\ skus' = req.list
                  /\ skusArg' = [iterable |-> req.kind = "array", length |-> req.length]
                  /\ imageFiles' = ResolveImageFiles(req.list, req.uploadMethod,
                                        req.singleFile, req.zipFile, req.zipKeys,
                                        req.individualFiles)
                  /\ operationType' = req.operationType
                  /\ activeStore' = req.store
                  /\ UNCHANGED <<requireBound, idx, completed, failed, cur, made,
                                 lookups, storeThrew>>
    /\ UNCHANGED <<productOps, submitted, storeVars, single, matchVars, poll>>

\* ------------------------------------------- single-image operations
\* What the single-image handlers leave alone.
singleFrame == <<batches, response, req, orchVars, submitted, storeVars, matchVars, poll>>

\* An image id of a request: absent (or the empty string), the string 'null',
\* or an id.
ImageIds == {"absent", "null", "id"}

\* if (id && id !== 'null' && id !== '') of replaceVariantImage and
\* replaceProductImage: deleteProductMedia is called.
DeletesOld(id) == id = "id"

\* Mutant of UpdateImageCalls: an add with a product goes through
\* replaceVariantImage.
UpdateImageCallsAddReplaces(opType, hasProductId, existingImageId, hasSku) ==
    (IF hasProductId
     THEN (IF DeletesOld(existingImageId) THEN <<"delete">> ELSE <<>>) \o <<"media">>
     ELSE IF opType = "replace" THEN <<"uploadImage">> ELSE <<>>)
    \o (IF hasSku THEN <<"lookup">> ELSE <<>>)

\* Remote calls of the try block of POST /api/products/update-image:
\* addImageToProduct (createProductMediaFromUrl), or replaceVariantImage
\* (deleteProductMedia when existingImageId is an id, then
\* createProductMediaFromUrl), or uploadImage; then searchProductBySku when a
\* sku is given.  updateProductVariantImage and generatePreviewLink send nothing.
UpdateImageCalls(opType, hasProductId, existingImageId, hasSku) ==
    (IF opType = "add" /\ hasProductId THEN <<"media">>
     ELSE IF opType = "replace" THEN
        IF hasProductId
        THEN (IF DeletesOld(existingImageId) THEN <<"delete">> ELSE <<>>) \o <<"media">>
        ELSE <<"uploadImage">>
     ELSE <<>>)
    \o (IF hasSku THEN <<"lookup">> ELSE <<>>)

\* A single-image request may arrive: no submit request is part of the
\* behaviour, and the requests arrive in the order of their numbers.
MayArrive(r) ==
    /\ response = "none"
    /\ req.at = "none"
    /\ single[r].at = "none"
    /\ \A q \in SingleRequests : q < r => single[q].at # "none"

\* POST /api/products/update-image, up to its first await: schema.parse, then
\* storage.getActiveStore() is called.
UpdateImage ==
    /\ \E r \in SingleRequests :
         /\ MayArrive(r)
         /\ \E parseOk \in BOOLEAN, opType \in {"replace", "add"}, hasProductId \in BOOLEAN,
               existingImageId \in ImageIds, hasSku \in BOOLEAN :
              IF ~parseOk THEN
                 single' = [single EXCEPT ![r] =
                               [NoSingle EXCEPT !.route = "update-image", !.at = "done",
                                                !.response = "500"]]
              ELSE
                 single' = [single EXCEPT ![r] =
                               [NoSingle EXCEPT
                                   !.route = "update-image", !.at = "getActiveStore",
                                   !.operationType = opType, !.noLookup = TRUE,
                                   !.todo = UpdateImageCalls(opType, hasProductId,
                                                             existingImageId, hasSku)]]
    /\ UNCHANGED <<productOps, singleFrame>>

\* What productVariant.image gives in the answer of the lookup: no image, or
\* an image with one of the ids of ImageIds.
VariantImages == {"none"} \cup ImageIds

\* Remote calls of the try block of POST /api/products/image-operation:
\* replaceProductImage of targetImageId when one is given, else of the id of
\* the variant's image when it has an image (in both, deleteProductMedia when
\* the id is an id, then addImageToProduct), or addImageToProduct.
ImageOperationCalls(opType, hasVariant, targetImageId, image) ==
    IF opType = "replace" /\ hasVariant THEN
       IF targetImageId # "absent"
       THEN (IF DeletesOld(targetImageId) THEN <<"delete">> ELSE <<>>) \o <<"media">>
       ELSE IF image # "none"
       THEN (IF DeletesOld(image) THEN <<"delete">> ELSE <<>>) \o <<"media">>
       ELSE <<>>
    ELSE IF opType = "add" /\ hasVariant THEN <<"media">>
    ELSE <<>>

\* POST /api/products/image-operation, up to its first await.
\*   inputType  'sku' (searchProductBySku), 'url' (getProductFromUrl), 'direct_image'
ImageOperation ==
    /\ \E r \in SingleRequests :
         /\ MayArrive(r)
         /\ \E parseOk \in BOOLEAN, inputType \in {"sku", "url", "direct_image"},
               opType \in {"replace", "add"}, targetImageId \in ImageIds :
              IF ~parseOk THEN
                 single' = [single EXCEPT ![r] =
                               [NoSingle EXCEPT !.route = "image-operation", !.at = "done",
                                                !.response = "500"]]
              ELSE
                 single' = [single EXCEPT ![r] =
                               [NoSingle EXCEPT
                                   !.route = "image-operation", !.at = "getActiveStore",
                                   !.operationType = opType,
                                   !.noLookup = (inputType = "direct_image"),
                                   !.target = targetImageId]]
    /\ UNCHANGED <<productOps, singleFrame>>

\* The handler answers with a status: its request is over.
Answer(sg, status) == [sg EXCEPT !.at = "done", !.response = status]

\* const activeStore = await storage.getActiveStore() of either route: 400
\* without a store; else the lookup of image-operation or the insert of the
\* pending record is called.
SingleGetActiveStore ==
    /\ \E r \in SingleRequests :
         /\ single[r].at = "getActiveStore"
         /\ \E threw \in BOOLEAN, out \in GetActiveStore :
              single' = [single EXCEPT ![r] =
                 IF threw THEN Answer(@, "500")
                 ELSE IF out = 0 THEN Answer(@, "400")
                 ELSE IF @.noLookup THEN [@ EXCEPT !.at = "create", !.store = out]
                 ELSE [@ EXCEPT !.at = "lookup", !.store = out, !.calls = <<"lookup">>]]
    /\ UNCHANGED <<productOps, singleFrame>>

\* image-operation: productVariant = await searchProductBySku / getProductFromUrl;
\* 404 without a product, else the insert of the pending record is called.
SingleLookup ==
    /\ \E r \in SingleRequests :
         /\ single[r].at = "lookup"
         /\ \E out \in {"null", "throw", "found"}, image \in VariantImages :
              single' = [single EXCEPT ![r] =
                 CASE out = "null" -> Answer(@, "404")
                   [] out = "throw" -> Answer(@, "500")
                   [] out = "found" ->
                        [@ EXCEPT !.at = "create",
                                  !.todo = ImageOperationCalls(single[r].operationType, TRUE,
                                                               single[r].target, image)]]
    /\ UNCHANGED <<productOps, singleFrame>>

\* The first remote call of todo is issued, or, with none left, the update
\* of the record to success.
SingleProceed(sg) ==
    IF sg.todo = <<>> THEN [sg EXCEPT !.at = "update"]
    ELSE [sg EXCEPT !.at = "call", !.calls = Append(@, Head(sg.todo))]

\* const operation = await storage.createProductOperation(operationData):
\* the pending record is in the table while the try block runs.
SingleCreateOperation ==
    /\ \E r \in SingleRequests :
         /\ single[r].at = "create"
         /\ \E ok \in BOOLEAN :
              IF ok THEN
                 /\ productOps' = Append(productOps,
                       [batchId |-> 0, storeId |-> single[r].store, sku |-> NoSku,
                        operationType |-> single[r].operationType, status |-> "pending",
                        errorMessage |-> "none"])
                 /\ single' = [single EXCEPT ![r] =
                                  SingleProceed([@ EXCEPT !.op = Len(productOps) + 1])]
              ELSE
                 /\ single' = [single EXCEPT ![r] = Answer(@, "500")]
                 /\ UNCHANGED productOps
    /\ UNCHANGED singleFrame

\* The remote call in flight returns or throws.  A throw of deleteProductMedia
\* is caught inside replaceVariantImage / replaceProductImage; any other
\* throw goes to catch (shopifyError).
SingleRemoteCall ==
    /\ \E r \in SingleRequests :
         /\ single[r].at = "call"
         /\ \E ok \in BOOLEAN :
              single' = [single EXCEPT ![r] =
                 IF ok \/ Head(@.todo) = "delete"
                 THEN SingleProceed([@ EXCEPT !.todo = Tail(@)])
                 ELSE [@ EXCEPT !.at = "fail", !.err = "remote call failed"]]
    /\ UNCHANGED <<productOps, singleFrame>>

\* await storage.updateProductOperation(operation.id, { status: 'success' }),
\* then res.json; a throw goes to catch (shopifyError) like any other.
SingleMarkSuccess ==
    /\ \E r \in SingleRequests :
         /\ single[r].at = "update"
         /\ \E ok \in BOOLEAN :
              IF ok THEN
                 /\ UpdateProductOperation(single[r].op, [status |-> "success"])
                 /\ single' = [single EXCEPT ![r] = Answer(@, "200")]
              ELSE
                 /\ single' = [single EXCEPT ![r] =
                                  [@ EXCEPT !.at = "fail", !.err = "store failed"]]
                 /\ UNCHANGED productOps
    /\ UNCHANGED singleFrame

\* catch (shopifyError): await storage.updateProductOperation(operation.id,
\* { status: 'error', errorMessage }); throw; the outer catch answers 500.
SingleMarkError ==
    /\ \E r \in SingleRequests :
         /\ single[r].at = "fail"
         /\ \E ok \in BOOLEAN :
              IF ok
              THEN UpdateProductOperation(single[r].op,
                       [status |-> "error", errorMessage |-> single[r].err])
              ELSE UNCHANGED productOps
         /\ single' = [single EXCEPT ![r] = Answer(@, "500")]
    /\ UNCHANGED singleFrame

SingleOperation ==
    \/ SingleGetActiveStore
    \/ SingleLookup
    \/ SingleCreateOperation
    \/ SingleRemoteCall
    \/ SingleMarkSuccess
    \/ SingleMarkError

\* ------------------------------------------------------- orchestrator
\* What no step of the orchestrator writes.
argVars == <<response, req, skus, skusArg, requireBound, imageFiles, operationType,
             submitted, activeStore, storeVars, single, matchVars, poll>>

\* Mutant of Sku: the loop walks the list from its end.
SkuFromEnd == skus[Len(skus) + 1 - idx]

Sku == skus[idx]

\* Head of for (const sku of skus) for the code at index i: the lookup of
\* that code is issued, or the loop is over and the final update is issued;
\* on a value that is not iterable the statement throws into the outer catch.
LoopHead(i) ==
    IF ~skusArg.iterable THEN
       /\ pc' = "outerCatch"
       /\ UNCHANGED <<idx, cur, made>>
    ELSE
       /\ idx' = i
       /\ IF i <= Len(skus)
          THEN /\ pc' = "lookup"
               /\ cur' = [NoCur EXCEPT !.calls = <<"lookup">>, !.store = TaskStore]
               /\ made' = made \cup {"lookup"}
          ELSE /\ pc' = "final"
               /\ cur' = NoCur
               /\ made' = made

\* catch (error) of the loop body: failed++ and createProductOperation(error).
EnterCatch(c, msg) ==
    /\ failed' = failed + 1
    /\ pc' = "poCatch"
    /\ cur' = [c EXCEPT !.err = msg]

\* catch (shopifyError): updateProductOperation(operation.id, error).
EnterShopifyCatch(msg) ==
    /\ pc' = "poFail"
    /\ cur' = [cur EXCEPT !.err = msg]
    /\ made' = made

\* A remote call of the upload protocol is issued.
Issue(c, kind) ==
    /\ pc' = kind
    /\ cur' = [c EXCEPT !.calls = Append(@, kind), !.store = TaskStore]
    /\ made' = made \cup {kind}

\* Mutant of ProgressPatch: the progress update also resets the status.
ProgressPatchResetsStatus(c, f) ==
    [status |-> "pending", completedItems |-> NumToString(c + f),
     failedItems |-> NumToString(f)]

\* The columns the per-item progress update writes.
ProgressPatch(c, f) ==
    [completedItems |-> NumToString(c + f), failedItems |-> NumToString(f)]

\* Mutant of FinalStatus: completed >= 0 instead of completed > 0.
FinalStatusOffByOne(c) == IF c >= 0 THEN "completed" ELSE "error"

\* The status the final update writes.
FinalStatus(c) == IF c > 0 THEN "completed" ELSE "error"

\* The columns the final update writes.
FinalPatch(c, f) ==
    [status |-> FinalStatus(c), completedItems |-> NumToString(c + f),
     failedItems |-> NumToString(f)]

\* The columns the outer catch writes; n is skus.length.
OuterCatchPatch(n) ==
    [status |-> "error", completedItems |-> NumToString(0),
     failedItems |-> NumToString(n)]

\* await storage.updateBatchOperation(batchId, { status: 'processing' })
StartProcessing ==
    /\ pc = "start"
    /\ \E ok \in BOOLEAN :
       /\ storeThrew' = (storeThrew \/ ~ok)
       /\ IF ok THEN
            /\ UpdateBatchOperation([status |-> "processing"])
            /\ LoopHead(1)
            /\ UNCHANGED <<productOps, argVars, completed, failed>>
         ELSE
            /\ pc' = "outerCatch"
            /\ UNCHANGED <<batches, productOps, argVars, idx, completed, failed, cur, made>>
    /\ UNCHANGED lookups

\* Names every object literal inherits from Object.prototype, among the codes.
InheritedNames == {InheritedSku}

\* const imageBuffer = imageFiles[sku]; if (!imageBuffer): the map is an
\* object literal, so the lookup finds the keys the route has set and the
\* properties the literal inherits, which are functions and not falsy.
HasImage(sku) == sku \in imageFiles \/ sku \in InheritedNames

\* await shopify.searchProductBySku(sku), then the checks up to the next await.
SearchProductBySku ==
    /\ pc = "lookup"
    /\ \E out \in {"null", "throw", "found"}, img \in ImageKinds :
         /\ CASE out = "null" ->
                   /\ failed' = failed + 1
                   /\ pc' = "poNotFound"
                   /\ cur' = cur
              [] out = "throw" -> EnterCatch(cur, "lookup failed")
              [] out = "found" ->
                   IF ~HasImage(Sku)
                   THEN /\ failed' = failed + 1
                        /\ pc' = "poNoImage"
                        /\ cur' = [cur EXCEPT !.image = img]
                   ELSE /\ failed' = failed
                        /\ pc' = "poPending"
                        /\ cur' = [cur EXCEPT !.image = img]
         /\ UNCHANGED <<batches, productOps, argVars, idx, completed, made>>
         /\ lookups' = Append(lookups, out)
         /\ UNCHANGED storeThrew

\* await storage.createProductOperation({ status: 'error', 'Product not found' }); continue
CreateNotFoundOperation ==
    /\ pc = "poNotFound"
    /\ \E ok \in BOOLEAN :
       /\ storeThrew' = (storeThrew \/ ~ok)
       /\ IF ok THEN
            /\ CreateProductOperation(Sku, "error", "Product not found")
            /\ LoopHead(idx + 1)
            /\ UNCHANGED <<batches, argVars, completed, failed>>
         ELSE
            /\ EnterCatch(cur, "store failed")
            /\ UNCHANGED <<batches, productOps, argVars, idx, completed, made>>
    /\ UNCHANGED lookups

\* await storage.createProductOperation({ status: 'error', no image }); continue
CreateNoImageOperation ==
    /\ pc = "poNoImage"
    /\ \E ok \in BOOLEAN :
       /\ storeThrew' = (storeThrew \/ ~ok)
       /\ IF ok THEN
            /\ CreateProductOperation(Sku, "error", "No image provided")
            /\ LoopHead(idx + 1)
            /\ UNCHANGED <<batches, argVars, completed, failed>>
         ELSE
            /\ EnterCatch(cur, "store failed")
            /\ UNCHANGED <<batches, productOps, argVars, idx, completed, made>>
    /\ UNCHANGED lookups

\* const operation = await storage.createProductOperation({ status: 'pending' }),
\* then createStagedUpload is issued.
CreatePendingOperation ==
    /\ pc = "poPending"
    /\ \E ok \in BOOLEAN :
       /\ storeThrew' = (storeThrew \/ ~ok)
       /\ IF ok THEN
            /\ CreateProductOperation(Sku, "pending", "none")
            /\ Issue([cur EXCEPT !.op = Len(productOps) + 1], "reserve")
            /\ UNCHANGED <<batches, argVars, idx, completed, failed>>
         ELSE
            /\ EnterCatch(cur, "store failed")
            /\ UNCHANGED <<batches, productOps, argVars, idx, completed, made>>
    /\ UNCHANGED lookups

\* const mimeType = 'image/jpeg': the type the batch path declares to
\* createStagedUpload and in the multipart POST, whatever the file holds.
DeclaredMimeType == "image/jpeg"

\* The formats the transcoder of createProductMediaFromBuffer knows and the
\* mime type it declares for each.
TargetFormats == {"png", "jpeg", "webp"}

MimeOf(fileExtension) ==
    IF fileExtension = "png" THEN "image/png"
    ELSE IF fileExtension = "webp" THEN "image/webp"
    ELSE "image/jpeg"

\* await shopify.createStagedUpload(filename, mimeType, size); then
\* const FormData = require('form-data'), which throws a ReferenceError where
\* `require` is not bound; then the multipart POST to the staged target is
\* issued.
CreateStagedUpload ==
    /\ pc = "reserve"
    /\ \E ok \in BOOLEAN :
         IF ~ok THEN EnterShopifyCatch("Staged upload error")
         ELSE IF ~requireBound THEN EnterShopifyCatch("require is not defined")
         ELSE Issue(cur, "transfer")
    /\ UNCHANGED <<batches, productOps, argVars, idx, completed, failed>>
    /\ UNCHANGED <<storeThrew, lookups>>

\* Mutant of TransferUpload: a non-success status is noted and the file is
\* registered all the same.
TransferUploadGoesOn ==
    /\ pc = "transfer"
    /\ \E out \in {"ok", "notOk", "throw"} :
         CASE out = "ok" -> Issue(cur, "register")
           [] out = "notOk" -> Issue([cur EXCEPT !.err = "Staged upload failed"], "register")
           [] out = "throw" -> EnterShopifyCatch("fetch failed")
    /\ UNCHANGED <<batches, productOps, argVars, idx, completed, failed>>
    /\ UNCHANGED <<storeThrew, lookups>>

\* await fetch(stagedTarget.url, ...); if (!uploadResponse.ok) throw
TransferUpload ==
    /\ pc = "transfer"
    /\ \E out \in {"ok", "notOk", "throw"} :
         CASE out = "ok" -> Issue(cur, "register")
           [] out = "notOk" -> EnterShopifyCatch("Staged upload failed")
           [] out = "throw" -> EnterShopifyCatch("fetch failed")
    /\ UNCHANGED <<batches, productOps, argVars, idx, completed, failed>>
    /\ UNCHANGED <<storeThrew, lookups>>

\* await shopify.createFileFromStaged(resourceUrl, altText), then the branch on
\* operationType: replaceVariantImage, addImageToProduct, or neither.
CreateFileFromStaged ==
    /\ pc = "register"
    /\ \E ok \in BOOLEAN :
         IF ~ok THEN EnterShopifyCatch("File creation error")
         ELSE IF operationType = "replace" /\ cur.image # "none" THEN Issue(cur, "delete")
         ELSE IF operationType \in {"replace", "add"} THEN Issue(cur, "media")
         ELSE /\ pc' = "poSuccess"
              /\ UNCHANGED <<cur, made>>
    /\ UNCHANGED <<batches, productOps, argVars, idx, completed, failed>>
    /\ UNCHANGED <<storeThrew, lookups>>

\* Mutant of DeleteProductMedia: a deletion that does not delete fails the
\* iteration.
DeleteProductMediaFatal ==
    /\ pc = "delete"
    /\ \E out \in {"true", "false", "throw"} :
         IF out = "true" THEN Issue([cur EXCEPT !.deleted = TRUE], "media")
         ELSE EnterShopifyCatch("Media deletion error")
    /\ UNCHANGED <<batches, productOps, argVars, idx, completed, failed>>
    /\ UNCHANGED <<storeThrew, lookups>>

\* replaceVariantImage, step 1: deleteProductMedia(productId, existingImageId)
\* returns true or false or throws; the new media is created in every case.
DeleteProductMedia ==
    /\ pc = "delete"
    /\ \E out \in {"true", "false", "throw"} :
         Issue([cur EXCEPT !.deleted = (out = "true")], "media")
    /\ UNCHANGED <<batches, productOps, argVars, idx, completed, failed>>
    /\ UNCHANGED <<storeThrew, lookups>>

\* createProductMediaFromUrl (in replaceVariantImage or addImageToProduct),
\* then updateProductOperation(success) is issued.
CreateProductMediaFromUrl ==
    /\ pc = "media"
    /\ \E ok \in BOOLEAN :
         IF ok THEN /\ pc' = "poSuccess"
                    /\ UNCHANGED <<cur, made>>
         ELSE EnterShopifyCatch("Product media creation error")
    /\ UNCHANGED <<batches, productOps, argVars, idx, completed, failed>>
    /\ UNCHANGED <<storeThrew, lookups>>

\* await storage.updateProductOperation(operation.id, { status: 'success' });
\* completed++; then the progress update is issued.
MarkOperationSuccess ==
    /\ pc = "poSuccess"
    /\ \E ok \in BOOLEAN :
       /\ storeThrew' = (storeThrew \/ ~ok)
       /\ IF ok THEN
            /\ UpdateProductOperation(cur.op, [status |-> "success"])
            /\ completed' = completed + 1
            /\ pc' = "progress"
            /\ UNCHANGED <<cur, made>>
         ELSE
            /\ EnterShopifyCatch("store failed")
            /\ UNCHANGED <<productOps, completed>>
    /\ UNCHANGED <<batches, argVars, idx, failed>>
    /\ UNCHANGED lookups

\* catch (shopifyError): await storage.updateProductOperation(operation.id,
\* { status: 'error' }); throw shopifyError.  Either way the loop body's catch
\* runs next.
MarkOperationError ==
    /\ pc = "poFail"
    /\ \E ok \in BOOLEAN :
       /\ storeThrew' = (storeThrew \/ ~ok)
       /\ IF ok THEN
            /\ UpdateProductOperation(cur.op, [status |-> "error", errorMessage |-> cur.err])
            /\ EnterCatch(cur, cur.err)
         ELSE
            /\ EnterCatch(cur, "store failed")
            /\ UNCHANGED productOps
    /\ UNCHANGED <<batches, argVars, idx, completed, made>>
    /\ UNCHANGED lookups

\* catch (error): await storage.createProductOperation({ status: 'error' }),
\* then the progress update is issued.
CreateCatchOperation ==
    /\ pc = "poCatch"
    /\ \E ok \in BOOLEAN :
       /\ storeThrew' = (storeThrew \/ ~ok)
       /\ IF ok THEN
            /\ CreateProductOperation(Sku, "error", cur.err)
            /\ pc' = "progress"
         ELSE
            /\ pc' = "outerCatch"
            /\ UNCHANGED productOps
    /\ UNCHANGED <<batches, argVars, idx, completed, failed, cur, made>>
    /\ UNCHANGED lookups

\* await storage.updateBatchOperation(batchId, { completedItems, failedItems })
UpdateProgress ==
    /\ pc = "progress"
    /\ \E ok \in BOOLEAN :
       /\ storeThrew' = (storeThrew \/ ~ok)
       /\ IF ok THEN
            /\ UpdateBatchOperation(ProgressPatch(completed, failed))
            /\ LoopHead(idx + 1)
         ELSE
            /\ pc' = "outerCatch"
            /\ UNCHANGED <<batches, idx, cur, made>>
    /\ UNCHANGED <<productOps, argVars, completed, failed>>
    /\ UNCHANGED lookups

\* await storage.updateBatchOperation(batchId, { status, completedItems, failedItems })
FinishBatch ==
    /\ pc = "final"
    /\ \E ok \in BOOLEAN :
       /\ storeThrew' = (storeThrew \/ ~ok)
       /\ IF ok THEN
            /\ UpdateBatchOperation(FinalPatch(completed, failed))
            /\ pc' = "done"
         ELSE
            /\ pc' = "outerCatch"
            /\ UNCHANGED batches
    /\ UNCHANGED <<productOps, argVars, idx, completed, failed, cur, made>>
    /\ UNCHANGED lookups

\* Outer catch: await storage.updateBatchOperation(batchId, { status: 'error',
\* completedItems: '0', failedItems: skus.length }).  If this call throws too
\* the promise of the task is rejected and nothing else runs.
OuterCatch ==
    /\ pc = "outerCatch"
    /\ \E ok \in BOOLEAN :
       /\ storeThrew' = (storeThrew \/ ~ok)
       /\ IF ok THEN
            /\ UpdateBatchOperation(OuterCatchPatch(skusArg.length))
            /\ pc' = "done"
         ELSE
            /\ pc' = "rejected"
            /\ UNCHANGED batches
    /\ UNCHANGED <<productOps, argVars, idx, completed, failed, cur, made>>
    /\ UNCHANGED lookups

Orchestrator ==
    \/ StartProcessing
    \/ SearchProductBySku
    \/ CreateNotFoundOperation
    \/ CreateNoImageOperation
    \/ CreatePendingOperation
    \/ CreateStagedUpload
    \/ TransferUpload
    \/ CreateFileFromStaged
    \/ DeleteProductMedia
    \/ CreateProductMediaFromUrl
    \/ MarkOperationSuccess
    \/ MarkOperationError
    \/ CreateCatchOperation
    \/ UpdateProgress
    \/ FinishBatch
    \/ OuterCatch

\* The steps of the submit route after the arrival of the request.
BatchRoute == BatchGetActiveStore \/ BatchCreateOperation

Next ==
    \/ SubmitBatch
    \/ BatchRoute
    \/ UpdateImage
    \/ ImageOperation
    \/ SingleOperation
    \/ Orchestrator

Spec == Init /\ [][Next]_vars

\* ------------------------------------------------ the cap on one batch
Min(a, b) == IF a <= b THEN a ELSE b

\* parseBulkSku: .slice(0, 30) of the codes typed by the user.
ParseBulkSku(list) == SubSeq(list, 1, Min(Len(list), MaxBatchSkus))

\* POST /api/products/batch-search: z.array(z.string()).max(30).
BatchSearchAccepts(list) == Len(list) <= MaxBatchSkus

\* The bulk workflow of the client: the typed codes are parsed, searched and,
\* all found, submitted with the file the chosen upload method needs.
ClientSubmit ==
    /\ response = "none"
    /\ req.at = "none"
    /\ \E m \in 0..(MaxBatchSkus + 1), opType \in {"replace", "add"},
         method \in {"single", "zip"}, zip \in {"invalid", "valid"} :
         LET parsed == ParseBulkSku(SkuList(m)) IN
           /\ Len(parsed) >= 1
           /\ BatchSearchAccepts(parsed)
           /\ \E zipKeys \in {{}, Range(parsed)} :
                BatchOperationRoute("array", parsed, Len(parsed), TRUE, opType, method,
                    IF method = "single" THEN {"singleFile"} ELSE {"zipFile"},
                    zip, zipKeys, {})

\* A request sent to the submit route by any HTTP client, with a code list of
\* any length up to one past the cap.
DirectSubmit ==
    /\ response = "none"
    /\ req.at = "none"
    /\ \E n \in 0..(MaxBatchSkus + 1), kind \in {"invalid", "array"},
         opType \in OperationTypes, method \in UploadMethods,
         files \in SUBSET FileFields, zip \in {"invalid", "valid"} :
        \E zipKeys \in {{}, Range(SkuList(n))},
           indKeys \in {{}, Range(SkuList(n)) \cup {ExtraSku}} :
          BatchOperationRoute(kind, IF kind = "array" THEN SkuList(n) ELSE <<>>, n, TRUE,
                              opType, method, files, zip, zipKeys, indKeys)

CapNext == ClientSubmit \/ DirectSubmit \/ BatchRoute \/ StartProcessing

\* The submit route on code lists up to one past the cap, and the launch of
\* the orchestrator on the list it accepted.
CapSpec == Init /\ [][CapNext]_vars

\* -------------------------------------------------------- store routes
\* Most store configurations the table holds.
MaxStores == 3

\* What the store routes leave alone.
batchVars == <<batches, productOps, response, req, orchVars, submitted, single, matchVars,
              poll>>

ActiveStores == {s \in DOMAIN stores : stores[s]}

\* POST /api/stores: the body passes insertStoreSchema (isActive is one of its
\* optional fields, false by default), the connection test succeeds and
\* storage.createStore inserts the row.
CreateStore ==
    /\ Cardinality(DOMAIN stores) < MaxStores
    /\ \E isActive \in BOOLEAN :
         stores' = [s \in DOMAIN stores \cup {Cardinality(DOMAIN stores) + 1} |->
                       IF s \in DOMAIN stores THEN stores[s] ELSE isActive]
    /\ UNCHANGED <<act, batchVars>>

\* POST /api/stores/:id/activate, storage.setActiveStore(id), first statement:
\* await db.update(stores).set({ isActive: false })
DeactivateAll ==
    \E r \in ActivationRequests, id \in DOMAIN stores :
       /\ act[r] = 0
       /\ stores' = [s \in DOMAIN stores |-> FALSE]
       /\ act' = [act EXCEPT ![r] = id]
       /\ UNCHANGED batchVars

\* storage.setActiveStore(id), second statement:
\* await db.update(stores).set({ isActive: true }).where(eq(stores.id, id)),
\* which succeeds or throws.
ActivateOne ==
    \E r \in ActivationRequests, ok \in BOOLEAN :
       /\ act[r] # 0
       /\ stores' = IF ok THEN [stores EXCEPT ![act[r]] = TRUE] ELSE stores
       /\ act' = [act EXCEPT ![r] = 0]
       /\ UNCHANGED batchVars

\* storage.updateStore(id, store), one awaited statement:
\* db.update(stores).set({ ...store, updatedAt }).where(eq(stores.id, id)),
\* with isActive among the fields of store. The row id takes the value given,
\* the other rows stay and nothing is in flight afterwards. A method of the
\* storage interface; the routes of routes.ts do not call it.
UpdateStore ==
    \E id \in DOMAIN stores, isActive \in BOOLEAN :
       /\ stores' = [stores EXCEPT ![id] = isActive]
       /\ UNCHANGED <<act, batchVars>>

\* A batch of one code, with or without a file for it, submitted while the
\* store routes are in use.
SubmitOneCode ==
    /\ response = "none"
    /\ req.at = "none"
    /\ \E opType \in OperationTypes, indKeys \in SUBSET Range(SkuList(1)) :
         BatchOperationRoute("array", SkuList(1), 1, TRUE, opType, "individual", {},
                             "valid", {}, indKeys)

AppNext ==
    \/ CreateStore
    \/ DeactivateAll
    \/ ActivateOne
    \/ UpdateStore
    \/ SubmitOneCode
    \/ BatchRoute
    \/ Orchestrator

\* The store routes and the store methods beside one batch of one code.
AppSpec == Init /\ [][AppNext]_vars

\* ------------------------------------------------- the client's poller
\* What the poller leaves alone.
pollFrame == <<batches, productOps, response, req, orchVars, submitted, single,
               storeVars, matchVars>>

\* batchOperationMutation.onSuccess: setCurrentBatch(result), the record as
\* the submit route inserted it, then pollBatchProgress(result.id) starts the
\* timer (setInterval(..., 2000)).
StartPolling ==
    /\ response = "200"
    /\ poll.state = "idle"
    /\ poll' = [poll EXCEPT !.state = "polling", !.seen = BatchDefaults.status]
    /\ UNCHANGED pollFrame

\* The request a tick of the timer uses: the first one not in flight.
FreeTick == CHOOSE t \in PollRequests :
               /\ poll.ticks[t] = "free"
               /\ \A u \in PollRequests : poll.ticks[u] = "free" => t <= u

\* One tick of the timer, up to its first await:
\* fetch(`/api/batch-operations/${batchId}`) is called, whether or not the
\* callbacks of earlier ticks have finished.
PollTick ==
    /\ poll.state = "polling"
    /\ \E t \in PollRequests : poll.ticks[t] = "free"
    /\ poll' = [poll EXCEPT !.ticks[FreeTick] = "sent"]
    /\ UNCHANGED pollFrame

\* GET /api/batch-operations/:id: storage.getBatchOperation(id) gives the
\* record as it is now and the route answers with it, or it throws and the
\* route answers 500.
GetBatchOperation ==
    /\ \E t \in PollRequests, ok \in BOOLEAN :
         /\ poll.ticks[t] = "sent"
         /\ poll' = [poll EXCEPT !.ticks[t] = IF ok THEN batches[BatchId].status
                                                   ELSE "failed"]
    /\ UNCHANGED pollFrame

\* The rest of the callback of a tick, once its request is settled:
\*   the answer is the record: setCurrentBatch(batchStatus), and
\*   clearInterval when its status is completed or error;
\*   !response.ok, or fetch or response.json() rejects: caught, clearInterval.
PollAnswer ==
    /\ \E t \in PollRequests, rejects \in BOOLEAN :
         /\ poll.ticks[t] # "free"
         /\ poll.ticks[t] = "sent" => rejects
         /\ poll' = IF rejects \/ poll.ticks[t] = "failed"
                    THEN [poll EXCEPT !.state = "stopped", !.ticks[t] = "free"]
                    ELSE [state |-> IF poll.ticks[t] \in {"completed", "error"}
                                    THEN "stopped" ELSE poll.state,
                          seen |-> poll.ticks[t],
                          ticks |-> [poll.ticks EXCEPT ![t] = "free"]]
    /\ UNCHANGED pollFrame

\* The timer callback of pollBatchProgress.
PollBatchProgress == PollTick \/ PollAnswer

\* resetWorkflow: setCurrentBatch(null); the timer is left as it is.
ResetWorkflow ==
    /\ poll.seen # "none"
    /\ poll' = [poll EXCEPT !.seen = "none"]
    /\ UNCHANGED pollFrame

PollNext ==
    \/ SubmitOneCode
    \/ BatchRoute
    \/ Orchestrator
    \/ StartPolling
    \/ PollBatchProgress
    \/ GetBatchOperation
    \/ ResetWorkflow

\* A batch of one code and the client that polls it.
PollSpec == Init /\ [][PollNext]_vars

\* ---------------------------------------------------- filename matcher
\* The characters of the codes and basenames the matcher is applied to: "A"
\* is an upper-case letter, "a" and "s" are lower-case letters, " " is white
\* space.
Chars == {"a", "A", "s", "-", "_", " "}

\* Longest code and longest basename the matcher is applied to.
MaxCodeLen == 2

MaxNameLen == 3

\* Longest code list and archive of the two archive readers.
MaxZipSkus == 2

MaxZipEntries == 2

SeqsUpTo(S, n) == UNION {[1..k -> S] : k \in 0..n}

\* String.prototype.toLowerCase()
ToLowerCase(str) == [i \in DOMAIN str |-> IF str[i] = "A" THEN "a" ELSE str[i]]

\* String.prototype.trim()
RECURSIVE TrimStart(_)
TrimStart(str) ==
    IF Len(str) > 0 /\ Head(str) = " " THEN TrimStart(Tail(str)) ELSE str

RECURSIVE TrimEnd(_)
TrimEnd(str) ==
    IF Len(str) > 0 /\ str[Len(str)] = " " THEN TrimEnd(SubSeq(str, 1, Len(str) - 1)) ELSE str

Trim(str) == TrimEnd(TrimStart(str))

\* The class of the regex literal /[-_\s]/g.
IsSeparator(c) == c \in {"-", "_", " "}

NotSeparator(c) == ~IsSeparator(c)

\* str.replace(/[-_\s]/g, '')
RemoveSeparators(str) == SelectSeq(str, NotSeparator)

\* String.prototype.startsWith
StartsWith(str, prefix) ==
    Len(prefix) <= Len(str) /\ SubSeq(str, 1, Len(prefix)) = prefix

\* The class [-_\s] of the pattern of new RegExp(`(^|[-_\s])...([-_\s]|$)`, 'i').
\* The pattern is written in a template literal, in which \s is the letter s:
\* the class the RegExp gets is [-_s].
RegexClass == {"-", "_", "s"}

\* regex.test(fileClean): skuClean occurs in fileClean, preceded by the start
\* of the string or a character of the class and followed by a character of
\* the class or the end of the string.
RegexTest(skuClean, fileClean) ==
    \E p \in 1..(Len(fileClean) - Len(skuClean) + 1) :
       /\ SubSeq(fileClean, p, p + Len(skuClean) - 1) = skuClean
       /\ (p = 1 \/ fileClean[p - 1] \in RegexClass)
       /\ (p + Len(skuClean) > Len(fileClean) \/ fileClean[p + Len(skuClean)] \in RegexClass)

MatchSkuToFilename(sku, fileBaseName) ==
    LET skuClean == Trim(ToLowerCase(sku))
        fileClean == Trim(ToLowerCase(fileBaseName))
    IN \/ fileClean = skuClean
       \/ RemoveSeparators(fileClean) = RemoveSeparators(skuClean)
       \/ StartsWith(fileClean, skuClean)
       \/ RegexTest(skuClean, fileClean)

\* skus.find(sku => matchSkuToFilename(sku, fileBaseName)): the first code of
\* the list that matches; undefined (the empty sequence) when none does.
FindSku(list, fileBaseName) ==
    LET hits == {i \in DOMAIN list : MatchSkuToFilename(list[i], fileBaseName)} IN
    IF hits = {} THEN <<>> ELSE list[CHOOSE i \in hits : \A j \in hits : i <= j]

\* zip-preview: matchingSku = null; if (skus.length > 0) matchingSku = skus.find(...)
PreviewMatchingSku(list, fileBaseName) ==
    IF Len(list) > 0 THEN FindSku(list, fileBaseName) ELSE <<>>

\* The extensions of /\.(jpg|jpeg|png|webp)$/i.
ImageExtensions == {"jpg", "jpeg", "png", "webp"}

\* The i flag of the test, on the extensions the archives carry.
LowerExt(ext) == CASE ext = "PNG" -> "png" [] ext = "JPG" -> "jpg" [] OTHER -> ext

\* Mutant of IsImageEntry: the test of the extension is case-sensitive.
IsImageEntryCaseSensitive(dir, ext) == ~dir /\ ext \in ImageExtensions

\* !file.dir && /\.(jpg|jpeg|png|webp)$/i.test(filename)
IsImageEntry(dir, ext) == ~dir /\ LowerExt(ext) \in ImageExtensions

\* An archive entry: its basename (the file name without directories, up to
\* its first dot), whether it is a directory, its extension, and whether the
\* two archive readers keep it.
Entry(base, dir, ext) ==
    [base |-> base, dir |-> dir, ext |-> ext, image |-> IsImageEntry(dir, ext)]

\* <<dir, extension>> of the entries of the archives of several elements: two
\* images, a file that is no image, a directory.
EntryKinds == {<<FALSE, "jpg">>, <<FALSE, "PNG">>, <<FALSE, "gif">>, <<TRUE, "">>}

\* zip-preview: one element of files per image entry, in archive order.
ZipPreviewFiles(list, entries) ==
    LET images == SelectSeq([i \in DOMAIN entries |-> entries[i]],
                            LAMBDA e : e.image)
    IN [k \in DOMAIN images |->
          [basename |-> images[k].base,
           matchingSku |-> PreviewMatchingSku(list, images[k].base)]]

\* batch-operation, the archive loop over the first k entries:
\* if (matchingSku) imageFiles[matchingSku] = (content of the entry).
RECURSIVE ZipImageFiles(_, _, _)
ZipImageFiles(list, entries, k) ==
    IF k = 0 THEN <<>>
    ELSE LET before == ZipImageFiles(list, entries, k - 1)
             matchingSku == FindSku(list, entries[k].base)
         IN IF entries[k].image /\ matchingSku # <<>>
            THEN [c \in DOMAIN before \cup {matchingSku} |->
                     IF c = matchingSku THEN k ELSE before[c]]
            ELSE before

\* zip-preview: files.filter(f => f.matches), matches being !!matchingSku
IsMatched(f) == f.matchingSku # <<>>

IsUnmatched(f) == ~IsMatched(f)

\* matchedCount and unmatchedCount of the zip-preview response.
MatchedCount(files) == Len(SelectSeq(files, IsMatched))

UnmatchedCount(files) == Len(SelectSeq(files, IsUnmatched))

\* What the archive preview leaves alone.
serverVars == <<batches, productOps, response, req, orchVars, submitted, single,
                storeVars, poll>>

\* POST /api/files/zip-preview with the code list and the archive.
ZipPreview ==
    /\ "preview" \notin zipDone
    /\ preview' = ZipPreviewFiles(zipSkus, zipEntries)
    /\ zipDone' = zipDone \cup {"preview"}
    /\ UNCHANGED <<zipSkus, zipEntries, serverVars>>

\* Codes and basenames of the code lists and archives of more than one element.
ListCodes == {<<"a">>, <<"s">>, <<"a", "s">>}

ListNames == {<<"a">>, <<"a", "-", "s">>, <<"s", "a">>, <<"-">>}

\* The code lists and the archives of several elements.
ZipLists == SeqsUpTo(ListCodes, MaxZipSkus)

ZipArchives ==
    SeqsUpTo({Entry(b, k[1], k[2]) : b \in ListNames, k \in EntryKinds}, MaxZipEntries)

\* One code and one image entry, over all the strings up to the bounds; or a
\* code list and an archive of several elements.
MatchInit ==
    /\ InitServer
    /\ \/ /\ \E code \in SeqsUpTo(Chars, MaxCodeLen) \ {<<>>} : zipSkus = <<code>>
          /\ \E base \in SeqsUpTo(Chars, MaxNameLen) : zipEntries = <<Entry(base, FALSE, "jpg")>>
       \/ /\ zipSkus \in ZipLists
          /\ zipEntries \in ZipArchives

MatchNext == ZipPreview

\* The archive preview on bounded code lists and archives.
MatchSpec == MatchInit /\ [][MatchNext]_vars

\* POST /api/products/batch-operation in archive mode (as the client sends
\* it: skus, uploadMethod 'zip', the archive in the part zipFile) with the
\* code list and the archive the preview is given.  The keys the archive
\* loop would give are those of ZipImageFiles.
SubmitArchive ==
    /\ response = "none"
    /\ req.at = "none"
    /\ \E opType \in {"replace", "add"} :
         BatchOperationRoute("array", zipSkus, Len(zipSkus), TRUE, opType, "zip",
                             {"zipFile"}, "valid",
                             DOMAIN ZipImageFiles(zipSkus, zipEntries, Len(zipEntries)), {})

\* The archives of image files and of files that are no images.
FileArchives ==
    SeqsUpTo({Entry(b, FALSE, x) : b \in ListNames, x \in {"jpg", "gif"}}, MaxZipEntries)

ArchiveInit ==
    /\ InitServer
    /\ zipSkus \in ZipLists
    /\ zipEntries \in FileArchives

\* The steps of processBatchOperations on an empty image map: no iteration
\* gets past the test of imageFiles[sku], so no step of the upload protocol
\* is ever called.
ArchiveTask ==
    \/ StartProcessing
    \/ SearchProductBySku
    \/ CreateNotFoundOperation
    \/ CreateNoImageOperation
    \/ CreateCatchOperation
    \/ UpdateProgress
    \/ FinishBatch
    \/ OuterCatch

ArchiveNext ==
    \/ ZipPreview
    \/ SubmitArchive
    \/ BatchRoute
    \/ ArchiveTask

\* The archive preview and a batch submitted in archive mode with the same
\* code list and the same archive.
ArchiveSpec == ArchiveInit /\ [][ArchiveNext]_vars

\* ------------------------------------------------------------- claims
Terminal == {"completed", "error"}

StatusRank(st) == CASE st = "pending" -> 0 [] st = "processing" -> 1 [] OTHER -> 2

BatchOps == {i \in DOMAIN productOps : productOps[i].batchId = BatchId}

UploadKinds == {"reserve", "transfer", "register", "delete", "media"}

\* The orchestrator task has ended: by the final update, by the outer catch,
\* or by the rejection of its promise.
Ended == pc \in {"done", "rejected"}

\* The loop ran over the whole list and the final update was written.
Finished == pc = "done" /\ idx = Len(skus) + 1

\* C1: in every state of a BatchOperation record, completedItems <= totalItems
\* and failedItems <= completedItems, whatever the remote calls and the
\* record-store calls of the run return.
CountersBounded ==
    \A b \in DOMAIN batches :
        /\ Num(batches[b].completedItems) <= Num(batches[b].totalItems)
        /\ Num(batches[b].failedItems) <= Num(batches[b].completedItems)

\* C2: the status of a batch only moves forward along pending -> processing ->
\* {completed | error}: no step lowers its rank, and a status that is
\* completed or error is never changed by a later write.
StatusForward ==
    [][\A b \in DOMAIN batches :
          /\ b \in DOMAIN batches'
          /\ StatusRank(batches'[b].status) >= StatusRank(batches[b].status)
          /\ batches[b].status \in Terminal => batches'[b].status = batches[b].status]_vars

\* C2 witness: the batch went through processing and the final update or the
\* outer catch has written a terminal status.
StatusForwardWitness ==
    /\ pc = "done"
    /\ idx >= 1
    /\ \E b \in DOMAIN batches : batches[b].status \in Terminal

\* C3: a failure while one code is processed never aborts the batch: when the
\* task has ended after the loop began, every code of the list was attempted
\* (one product lookup was made per code).
EveryCodeAttempted ==
    (Ended /\ idx >= 1) => Len(lookups) = Len(skus)

\* C4: no batch has status error while one of its ProductOperation records is
\* success, and a batch of at least one code is error with zero items
\* processed only if the failure happened before the loop began.
ErrorOnlyWithoutSuccess ==
    \A b \in DOMAIN batches :
        batches[b].status = "error" =>
            /\ \A i \in BatchOps : productOps[i].status # "success"
            /\ (Len(skus) >= 1 /\ Num(batches[b].completedItems) = 0) => idx = 0

\* C5: when a batch has finished (the loop ran over the whole list, no
\* record-store call threw), it has exactly one ProductOperation record per
\* submitted code.
OneOperationPerCode ==
    (Finished /\ ~storeThrew) => Cardinality(BatchOps) = Len(skus)

\* C6: the stored completedItems and failedItems never decrease, whichever
\* write of the orchestrator stores them.
CountersMonotonic ==
    [][\A b \in DOMAIN batches :
          /\ b \in DOMAIN batches'
          /\ Num(batches'[b].completedItems) >= Num(batches[b].completedItems)
          /\ Num(batches'[b].failedItems) >= Num(batches[b].failedItems)]_vars

\* C7: every created batch reaches completed or error when every call
\* returns: there is no state in which a batch exists, its status is pending
\* or processing, and no step of the program is left to take.
BatchNeverStuck ==
    \A b \in DOMAIN batches :
        batches[b].status \in Terminal \/ ENABLED Next

\* C8: a code list of more than 30 entries is rejected before a batch is
\* created: no batch has totalItems > 30 and the orchestrator never runs on
\* more than 30 codes.
CapRespected ==
    /\ \A b \in DOMAIN batches : Num(batches[b].totalItems) <= MaxBatchSkus
    /\ Len(skus) <= MaxBatchSkus

\* C9: a submission rejected for an input error leaves no BatchOperation
\* record behind: no step of a request that the route answers with an error
\* leaves a batch, and a request in archive mode whose zipFile part is not a
\* valid archive is such a request: no step of it creates a batch.
RejectedLeavesNoBatch ==
    [][/\ (req'.at = "done" /\ response' \in {"400", "500"}) => DOMAIN batches' = {}
       /\ (req.uploadMethod = "zip" /\ req.archive = "invalid") =>
             DOMAIN batches' = {}]_vars

\* C10: for a batch of n >= 1 codes whose product lookups all returned no
\* product (and whose record-store calls all succeeded), the terminal state is
\* status = error, failedItems = n, completedItems = n, with n ProductOperation
\* records, all error, and no call of the upload protocol made.
AllNotFoundEndsError ==
    (/\ Finished
     /\ ~storeThrew
     /\ Len(skus) >= 1
     /\ \A i \in DOMAIN lookups : lookups[i] = "null")
    => /\ batches[BatchId].status = "error"
       /\ Num(batches[BatchId].failedItems) = Len(skus)
       /\ Num(batches[BatchId].completedItems) = Len(skus)
       /\ Cardinality(BatchOps) = Len(skus)
       /\ \A i \in BatchOps : productOps[i].status = "error"
       /\ made \cap UploadKinds = {}

\* C10 witness: a batch of MaxCodes codes, none of them found, has finished.
AllNotFoundWitness ==
    /\ Finished
    /\ ~storeThrew
    /\ Len(skus) = MaxCodes
    /\ Len(lookups) = MaxCodes
    /\ \A i \in DOMAIN lookups : lookups[i] = "null"

\* C11: totalItems of a batch is the length of the submitted code list, as a
\* decimal string, from the write that creates the batch on, and no later
\* write of the batch changes it.
TotalItemsFrozen ==
    [][/\ \A b \in DOMAIN batches :
            /\ b \in DOMAIN batches'
            /\ batches'[b].totalItems = batches[b].totalItems
       /\ \A b \in DOMAIN batches' \ DOMAIN batches :
            /\ batches'[b].totalItems = NumToString(req.length)
            /\ req.kind = "array" => req.length = Len(submitted)]_vars

\* C11 witness: a batch of MaxCodes codes has been through the progress
\* updates and the final update, and totalItems still is MaxCodes.
TotalItemsWitness ==
    /\ Finished
    /\ Len(submitted) = MaxCodes
    /\ Num(batches[BatchId].completedItems) = MaxCodes
    /\ Num(batches[BatchId].totalItems) = MaxCodes

\* Positions of the task between the creation of the Pending record of the
\* current code and the write of its outcome.
OutcomePending == {"reserve", "transfer", "register", "delete", "media", "poSuccess", "poFail"}

\* Positions of the task inside the iteration of the current code, from the
\* creation of its Pending record to the progress update that ends it.
InIteration == OutcomePending \cup {"poCatch", "progress"}

\* C12: a ProductOperation record of the batch changes status at most once,
\* from pending to success or to error; a record that is success or error is
\* never written again; and a record is pending only while the iteration
\* that created it is running.
OperationStatusOnce ==
    [][/\ \A i \in BatchOps :
            /\ i \in DOMAIN productOps'
            /\ productOps'[i].status # productOps[i].status =>
                  /\ productOps[i].status = "pending"
                  /\ productOps'[i].status \in {"success", "error"}
            /\ productOps[i].status \in {"success", "error"} =>
                  productOps'[i] = productOps[i]
       /\ \A i \in BatchOps' :
             productOps'[i].status = "pending" =>
                (i = cur'.op /\ pc' \in InIteration)]_vars

\* Codes of the batch that have no entry in imageFiles.
WithoutImage == {i \in DOMAIN skus : skus[i] \notin imageFiles}

\* C13: no call of the upload protocol (Reserve, Transfer, Register, delete,
\* attach) is made for a code that has no entry in the resolved map; and when
\* the batch has finished (no record-store call threw) every such code has a
\* ProductOperation in error and none in another status, and is counted in
\* failedItems and in completedItems.
NoImageNeverSkipped ==
    /\ (idx \in DOMAIN skus /\ Range(cur.calls) \cap UploadKinds # {})
          => skus[idx] \in imageFiles
    /\ (Finished /\ ~storeThrew) =>
          /\ \A i \in WithoutImage :
                /\ \E r \in BatchOps : productOps[r].sku = skus[i]
                /\ \A r \in BatchOps :
                      productOps[r].sku = skus[i] => productOps[r].status = "error"
          /\ Num(batches[BatchId].failedItems) >= Cardinality(WithoutImage)
          /\ Num(batches[BatchId].completedItems) = Len(skus)

\* C14: in the three upload methods, every key of the image map handed to
\* the orchestrator is one of the submitted codes.
ImageKeysAreCodes ==
    imageFiles \subseteq Range(submitted)

\* C18: an add operation never issues a delete call: not in the batch path
\* (no deleteProductMedia among the calls of a task whose operationType is
\* add) and not in the single-operation routes.
NoDeleteOnAdd ==
    /\ operationType = "add" => "delete" \notin made
    /\ \A r \in SingleRequests :
          single[r].operationType = "add" => "delete" \notin Range(single[r].calls)

\* C18 witness: in an add batch, a code whose product already has an image
\* went through the upload and the attach call and was marked success.
NoDeleteOnAddWitness ==
    /\ operationType = "add"
    /\ pc = "progress"
    /\ cur.image = "media"
    /\ "media" \in Range(cur.calls)
    /\ productOps[cur.op].status = "success"

\* C19: at most one store configuration is active at any time, whatever the
\* interleaving of the activation requests and the store creations.
AtMostOneActive ==
    Cardinality(ActiveStores) <= 1

\* C20: the store a batch runs on is the one that was active when the batch
\* was submitted: the store the submit request read is active when it is read,
\* the task is launched with it and keeps it to its end, and the batch
\* record, every ProductOperation record and every remote call of the task
\* carry that store, whichever store is activated meanwhile.
BatchKeepsItsStore ==
    [][/\ (req.at = "getActiveStore" /\ req'.at = "createBatchOperation")
             => req'.store \in ActiveStores
       /\ (pc = "none" /\ pc' # "none") => activeStore' = req.store
       /\ pc # "none" => activeStore' = activeStore
       /\ pc' # "none" =>
            /\ batches'[BatchId].storeId = activeStore'
            /\ \A i \in BatchOps' : productOps'[i].storeId = activeStore'
            /\ cur'.calls # <<>> => cur'.store = activeStore']_vars

\* C20 witness: the store of the task is no longer active, another one is,
\* and the task has since issued remote calls and written the success of its
\* code.
BatchKeepsItsStoreWitness ==
    /\ pc = "progress"
    /\ ActiveStores # {}
    /\ activeStore \notin ActiveStores
    /\ "media" \in Range(cur.calls)
    /\ cur.store = activeStore
    /\ productOps[cur.op].status = "success"
    /\ productOps[cur.op].storeId = activeStore

\* The preview has answered and the batch submitted in archive mode has been
\* launched with its image map.
BothRead == "preview" \in zipDone /\ pc # "none"

\* Codes the preview reports as matched.
PreviewMatched ==
    {preview[k].matchingSku : k \in DOMAIN preview} \ {<<>>}

\* C15: for the same code list and the same archive entries, the set of codes
\* the preview reports as matched is the set of keys of the image map the
\* submit route hands to the batch execution in archive mode.
PreviewAgreesWithExtract ==
    BothRead => PreviewMatched = imageFiles

\* Indices of the codes of the list that match a basename.
MatchingCodes(base) == {i \in DOMAIN zipSkus : MatchSkuToFilename(zipSkus[i], base)}

FirstOf(S) == CHOOSE i \in S : \A j \in S : i <= j

\* C16: in a batch submitted in archive mode an image entry that matches
\* several codes is assigned to the first of them in code-list order and to
\* no other code: the keys of the image map are the first matching codes of
\* the image entries that match a code; an entry that matches no code gives
\* no key.  The preview reports the same code for each entry.
FirstMatchWins ==
    /\ pc # "none" =>
          imageFiles = {zipSkus[FirstOf(MatchingCodes(zipEntries[e].base))] :
                           e \in {x \in DOMAIN zipEntries :
                                     /\ zipEntries[x].image
                                     /\ MatchingCodes(zipEntries[x].base) # {}}}
    /\ "preview" \in zipDone =>
          \A k \in DOMAIN preview :
             LET hits == MatchingCodes(preview[k].basename) IN
             preview[k].matchingSku = IF hits = {} THEN <<>> ELSE zipSkus[FirstOf(hits)]

\* The delimiters the fourth rule is stated with.
IsDelimiter(c) == c \in {"-", "_", " "}

\* The four rules as stated, on the case-folded and trimmed strings.
StatedRules(code, base) ==
    LET c == Trim(ToLowerCase(code))
        b == Trim(ToLowerCase(base))
    IN \/ b = c
       \/ RemoveSeparators(b) = RemoveSeparators(c)
       \/ StartsWith(b, c)
       \/ \E p \in 1..(Len(b) - Len(c) + 1) :
             /\ SubSeq(b, p, p + Len(c) - 1) = c
             /\ (p = 1 \/ IsDelimiter(b[p - 1]))
             /\ (p + Len(c) > Len(b) \/ IsDelimiter(b[p + Len(c)]))

\* C17: matchSkuToFilename(code, basename) is true exactly when one of the
\* four stated rules holds: for a list of one code, the preview reports an
\* entry as matched exactly when the rules hold for the code and the basename
\* of the entry.
MatcherFollowsRules ==
    ("preview" \in zipDone /\ Len(zipSkus) = 1) =>
       \A k \in DOMAIN preview :
          (preview[k].matchingSku # <<>>) <=> StatedRules(zipSkus[1], preview[k].basename)

\* Entries of the archive that are no directory and whose extension is jpg,
\* jpeg, png or webp in any case.
ImageEntries ==
    {e \in DOMAIN zipEntries :
        ~zipEntries[e].dir /\ LowerExt(zipEntries[e].ext) \in ImageExtensions}

\* C21: the step of the archive preview changes no record of the record store
\* and issues no remote call; its response has one element per non-directory
\* entry with an image extension and none for the other entries;
\* matchedCount + unmatchedCount is the number of those entries; and
\* matchedCount is 0 when none of them matches a supplied code.
PreviewHasNoEffect ==
    [][("preview" \notin zipDone /\ "preview" \in zipDone') =>
         /\ UNCHANGED <<batches, productOps, stores, made, cur, single, lookups>>
         /\ Len(preview') = Cardinality(ImageEntries)
         /\ \A e \in DOMAIN zipEntries \ ImageEntries :
               \A k \in DOMAIN preview' :
                  preview'[k].basename = zipEntries[e].base =>
                     \E i \in ImageEntries : zipEntries[i].base = zipEntries[e].base
         /\ MatchedCount(preview') + UnmatchedCount(preview') = Cardinality(ImageEntries)
         /\ (\A e \in ImageEntries : MatchingCodes(zipEntries[e].base) = {})
               => MatchedCount(preview') = 0]_vars

\* C21 witness: the preview ran on an archive with an upper-case image
\* extension, matched to a code, and an entry that is no image.
PreviewWitness ==
    /\ "preview" \in zipDone
    /\ Len(zipEntries) = 2
    /\ Cardinality(ImageEntries) = 1
    /\ \E e \in ImageEntries : zipEntries[e].ext = "PNG"
    /\ MatchedCount(preview) = 1
    /\ UnmatchedCount(preview) = 0

\* C22: a client that polls a batch stops polling only once it has read a
\* status that is completed or error: the step that clears the timer is one
\* that stores such a status.
PollsUntilTerminal ==
    [][(poll.state = "polling" /\ poll'.state = "stopped") => poll'.seen \in Terminal]_vars

\* Positions of the calls of kind k among the remote calls of the iteration.
CallsOf(k) == {i \in DOMAIN cur.calls : cur.calls[i] = k}

\* C23: in a Replace the deletion of the prior asset is attempted before the
\* staged upload is reserved: every delete call of an iteration precedes its
\* reserve, transfer and register calls.
DeleteBeforeReserve ==
    operationType = "replace" =>
       \A d \in CallsOf("delete") :
          \A c \in CallsOf("reserve") \cup CallsOf("transfer") \cup CallsOf("register") :
             d < c

\* C24: a deletion that throws or returns false never fails a Replace: the
\* creation of the new media is always issued after it, and, the record store
\* answering every call, the iteration ends in success exactly when the
\* creation succeeded and in no other error than the creation's.
FailedDeleteNotFatal ==
    /\ (CallsOf("delete") # {} /\ pc # "delete") => CallsOf("media") # {}
    /\ (pc = "progress" /\ CallsOf("delete") # {} /\ ~cur.deleted /\ ~storeThrew) =>
          /\ cur.err \in {"none", "Product media creation error"}
          /\ (productOps[cur.op].status = "success") <=> (cur.err = "none")
          /\ productOps[cur.op].status \in {"success", "error"}

\* C24 witness: a Replace whose deletion deleted nothing ended in success.
FailedDeleteWitness ==
    /\ pc = "progress"
    /\ operationType = "replace"
    /\ CallsOf("delete") # {}
    /\ ~cur.deleted
    /\ ~storeThrew
    /\ productOps[cur.op].status = "success"

\* Records of the batch that carry the message of a refused transfer.
TransferRefused == {r \in BatchOps : productOps[r].errorMessage = "Staged upload failed"}

\* C25: after a transfer answered with a non-success status, the iteration
\* has issued exactly one transfer and no register, delete or media call;
\* the record store answering every call, the record of the code is in error
\* with the message of the failure, and the batch goes on to look up every
\* following code and ends with an outcome for each.
TransferFailureEndsCode ==
    /\ cur.err = "Staged upload failed" =>
          /\ Cardinality(CallsOf("transfer")) = 1
          /\ CallsOf("register") \cup CallsOf("delete") \cup CallsOf("media") = {}
          /\ (pc = "progress" /\ ~storeThrew) =>
                /\ productOps[cur.op].status = "error"
                /\ productOps[cur.op].errorMessage = "Staged upload failed"
    /\ (Ended /\ ~storeThrew /\ TransferRefused # {}) =>
          /\ Finished
          /\ Len(lookups) = Len(skus)
          /\ \A i \in DOMAIN skus :
                \E r \in BatchOps : /\ productOps[r].sku = skus[i]
                                   /\ productOps[r].status \in {"success", "error"}

\* C25 witness: the transfer of the first code was refused and the second
\* code ended in success.
TransferFailureWitness ==
    /\ Finished
    /\ ~storeThrew
    /\ Len(skus) = 2
    /\ \E r \in TransferRefused : productOps[r].sku = skus[1]
    /\ \E r \in BatchOps : productOps[r].sku = skus[2] /\ productOps[r].status = "success"

\* Position of a code in the submitted list.
PositionOf(sku) == CHOOSE i \in DOMAIN skus : skus[i] = sku

\* C26: codes are processed one at a time in the submitted order: while the
\* task works on the code at position idx, every earlier code has a record
\* in success or error, no later code has a record or a lookup, the remote
\* calls in flight are those of the one current code, and the records of the
\* batch were created in the order of the list.
OneCodeAtATime ==
    (pc \notin {"none", "rejected"} /\ idx >= 1) =>
       /\ \A i \in DOMAIN skus :
             i < idx => \E r \in BatchOps : /\ productOps[r].sku = skus[i]
                                             /\ productOps[r].status \in {"success", "error"}
       /\ \A r \in BatchOps : /\ productOps[r].sku \in Range(skus)
                              /\ PositionOf(productOps[r].sku) <= idx
       /\ Len(lookups) <= idx
       /\ Len(lookups) >= idx - 1
       /\ \A r1, r2 \in BatchOps :
             r1 < r2 => PositionOf(productOps[r1].sku) <= PositionOf(productOps[r2].sku)

\* C26 witness: a batch of MaxCodes codes finished with a record for each.
OneCodeAtATimeWitness ==
    /\ Finished
    /\ Len(skus) = MaxCodes
    /\ \A i \in DOMAIN skus : \E r \in BatchOps : productOps[r].sku = skus[i]
    /\ \E r \in BatchOps : productOps[r].status = "success"

\* C27: the image is transcoded to the requested target format before the
\* staged upload is reserved, and the mime type declared at Reserve and
\* Transfer is the one of the requested format: an iteration that has issued
\* reserve has a transcoding step before it, and the declared type is the type
\* of whichever target format was requested.
TranscodedBeforeReserve ==
    CallsOf("reserve") # {} =>
       /\ \E t \in CallsOf("transcode") : \A r \in CallsOf("reserve") : t < r
       /\ \A fmt \in TargetFormats : DeclaredMimeType = MimeOf(fmt)

\* C28: a Replace whose record ends in error has not deleted the prior
\* asset of the product.
ErrorKeepsPriorAsset ==
    (operationType = "replace" /\ cur.op \in BatchOps /\ productOps[cur.op].status = "error")
       => ~cur.deleted

\* Records of the batch in success, and the codes that have none.
SuccessOps == {r \in BatchOps : productOps[r].status = "success"}

CodesWithoutSuccess ==
    {i \in DOMAIN skus : \A r \in SuccessOps : productOps[r].sku # skus[i]}

\* C29: in a terminal state of the batch the counters agree with the records:
\* completedItems - failedItems is the number of records in success,
\* failedItems is the number of codes with no record in success, and the two
\* loop counters together count every code once.
CountersAgreeWithRecords ==
    (pc = "done" /\ batches[BatchId].status \in Terminal) =>
       /\ Num(batches[BatchId].completedItems) - Num(batches[BatchId].failedItems)
             = Cardinality(SuccessOps)
       /\ Num(batches[BatchId].failedItems) = Cardinality(CodesWithoutSuccess)
       /\ completed + failed = Len(skus)

\* C30: a record of the batch is set to success only after the attach call
\* of its iteration (replaceVariantImage or addImageToProduct, whose remote
\* call is the creation of the product media) was issued and returned, for
\* every operationType the submit route accepts.
SuccessOnlyAfterAttach ==
    (cur.op \in BatchOps /\ productOps[cur.op].status = "success") =>
       /\ CallsOf("media") # {}
       /\ pc # "media"

====
